---- MODULE Spec2Model ----
(***************************************************************************)
(* Model of the radio stream service of src/main.py: the background        *)
(* preparation thread (prepare_audio_in_thread), the /stream handler       *)
(* (stream_audio) and the per-request async generator                      *)
(* (audio_stream_generator).                                               *)
(*                                                                         *)
(* Threads and tasks.  The preparation thread interleaves with everything  *)
(* statement by statement.  The handler and the generators are coroutines  *)
(* of one asyncio event loop: a coroutine runs alone from one suspension   *)
(* point (await, yield) to the next, which `running` records.              *)
(*                                                                         *)
(* Scale.  A buffer is a sequence of at most MaxLen bytes whose k-th byte  *)
(* is k, so that any loss, repetition or reordering of bytes shows in the  *)
(* content (the generator never inspects a byte).  chunk_size (8192 in the *)
(* source) ranges over 1..MaxChunk.  wait_time and max_wait are counted in *)
(* polls of 0.5 s.  Two configurations are checked.  Spec: every client    *)
(* connects, the readiness wait gives up after MaxPolls polls, passes are  *)
(* not counted.  SpecStream: one client, the wait of the source (60 polls: *)
(* max_wait = 30 s), and the stream recorded over MaxPasses passes.        *)
(* SpecRuns: prepare_audio_in_thread is run MaxRuns times, at any moments  *)
(* (the source runs it once, when the module is loaded), beside one client.*)
(* get_audio_info (/info) is called only beside a single stream client.    *)
(* loop_count is only logged: its values above pass_cap are identified, so *)
(* that a session loops forever in a finite state space.                   *)
(***************************************************************************)
EXTENDS Integers, Sequences, FiniteSets, TLC

\* ---------------------------------------------------------------- bounds
MaxLen == 3
MaxChunk == 2
MaxPasses == 2
MaxPolls == 2
NumSessions == 2
MaxRuns == 2

\* threading.Thread(target=prepare_audio_in_thread).start() runs once
NumPreparers == 1
\* max_wait = 30  # 30 seconds max wait
MaxWaitSeconds == 30
\* await asyncio.sleep(0.5); wait_time += 0.5
PollsPerSecond == 2

Sessions == 1..NumSessions
Preparers == 1..MaxRuns

\* Python's None for a bytes-valued variable (no byte is negative).
None == << -1 >>

\* The buffers padded_audio.export can produce.
Buffers == { [k \in 1..n |-> k] : n \in 0..MaxLen }

Min(a, b) == IF a < b THEN a ELSE b

\* Mutant: the end index taken as inclusive of one byte less.
SliceShort(b, lo, hi) == SubSeq(b, lo + 1, Min(hi - 1, Len(b)))

\* Python bytes slicing b[lo:hi] for 0 <= lo <= hi: the end is clamped to len(b).
Slice(b, lo, hi) == SubSeq(b, lo + 1, Min(hi, Len(b)))

VARIABLES
    file_exists,        \* os.path.exists(AUDIO_FILE_PATH)
    file_decodes,       \* from_mp3 and export succeed on the file
    chunk_size,         \* chunk_size of audio_stream_generator
    clients,            \* the sessions whose client sends a /stream request
    info_client,        \* whether a client sends /info requests
    threads,            \* the runs of prepare_audio_in_thread that are started
    max_wait,           \* max_wait, in polls of 0.5 s
    pass_cap,           \* loop_count is tracked up to pass_cap + 1
    _audio_bytes,       \* module global
    _audio_prepared,    \* module global
    bytes_writes,       \* how many times _audio_bytes has been assigned
    flag_writes,        \* how many times _audio_prepared has been assigned
    _preparation_lock,  \* 0 = free, else the preparer holding it
    prep_pc,            \* position of each run of prepare_audio_in_thread
    running,            \* the session the event loop is running, 0 = none
    pc,                 \* position of each session's generator
    response,           \* the response stream_audio returned to the client
    wait_time,          \* wait_time, in polls of 0.5 s
    loop_count,         \* loop_count
    i,                  \* i of the for loop
    chunk,              \* chunk
    exc,                \* exception that left the generator, "none" if none
    stalled,            \* the client of the session has stopped reading for good
    out,                \* chunks yielded by the session in its first pass_cap passes
    pass_out,           \* chunks yielded in the current pass
    last_to,            \* connected session that was yielded a chunk last, 0 = none
    join_chunk,         \* chunk last yielded to it when the session's request
                        \* arrived, kept until the session's first chunk is taken
    info_pc,            \* position of the get_audio_info call, "idle" if none
    info_prepared,      \* the value of _audio_prepared the call has read
    info                \* the outcome of the last get_audio_info call

vars == << file_exists, file_decodes, chunk_size, clients, info_client,
           threads, max_wait, pass_cap, _audio_bytes, bytes_writes,
           flag_writes, _audio_prepared, _preparation_lock, prep_pc, running, pc, response,
           wait_time, loop_count, i, chunk, exc, stalled, out, pass_out,
           last_to, join_chunk, info_pc, info_prepared, info >>

env == << file_exists, file_decodes, chunk_size, clients, info_client, threads,
         max_wait, pass_cap >>
prepv == << _audio_bytes, _audio_prepared, _preparation_lock, prep_pc,
           bytes_writes, flag_writes >>
sessv == << running, pc, response, wait_time, loop_count, i, chunk, exc, stalled,
            out, pass_out, last_to, join_chunk >>
infov == << info_pc, info_prepared, info >>

\* The task number of the get_audio_info call in `running`.
InfoTask == NumSessions + 1

\* No outcome: no call has returned since the last one began.
NoInfo == [status |-> 0, detail |-> "", prepared |-> FALSE, size |-> 0]

\* The state at module load, before the thread and any request has run.
Loaded ==
    /\ file_exists \in BOOLEAN
    /\ file_decodes \in BOOLEAN
    /\ chunk_size \in 1..MaxChunk
    /\ _audio_bytes = None
    /\ _audio_prepared = FALSE
    /\ _preparation_lock = 0
    /\ prep_pc = [p \in Preparers |-> "start"]
    /\ bytes_writes = 0
    /\ flag_writes = 0
    /\ running = 0
    /\ pc = [s \in Sessions |-> "idle"]
    /\ response = [s \in Sessions |-> "none"]
    /\ wait_time = [s \in Sessions |-> 0]
    /\ loop_count = [s \in Sessions |-> 0]
    /\ i = [s \in Sessions |-> 0]
    /\ chunk = [s \in Sessions |-> None]
    /\ exc = [s \in Sessions |-> "none"]
    /\ stalled = [s \in Sessions |-> FALSE]
    /\ out = [s \in Sessions |-> << >>]
    /\ pass_out = [s \in Sessions |-> << >>]
    /\ last_to = 0
    /\ join_chunk = [s \in Sessions |-> None]
    /\ info_pc = "idle"
    /\ info_prepared = FALSE
    /\ info = NoInfo

\* Either every stream client connects, or one stream client and the
\* client of /info; the wait is scaled; passes are not counted.
Init ==
    /\ Loaded
    /\ \/ clients = Sessions /\ info_client = FALSE
       \/ clients = { 1 } /\ info_client = TRUE
    /\ threads = 1..NumPreparers
    /\ max_wait = MaxPolls
    /\ pass_cap = 0

\* Every run of prepare_audio_in_thread is started, beside one stream
\* client and the client of /info.
InitRuns ==
    /\ Loaded
    /\ clients = { 1 }
    /\ info_client = TRUE
    /\ threads = Preparers
    /\ max_wait = MaxPolls
    /\ pass_cap = 0

\* One client connects and its stream is recorded over MaxPasses passes.
InitStream ==
    /\ Loaded
    /\ clients = { 1 }
    /\ info_client = TRUE
    /\ threads = 1..NumPreparers
    /\ max_wait = PollsPerSecond * MaxWaitSeconds
    /\ pass_cap = MaxPasses

\* ------------------------------------------------ prepare_audio_in_thread

\* with _preparation_lock: (entry)
PrepAcquire(p) ==
    /\ p \in threads
    /\ prep_pc[p] = "start"
    /\ _preparation_lock = 0
    /\ _preparation_lock' = p
    /\ prep_pc' = [prep_pc EXCEPT ![p] = "check"]
    /\ UNCHANGED << _audio_bytes, _audio_prepared, bytes_writes, flag_writes >>
    /\ UNCHANGED << env, sessv, infov >>

\* A run that prepares the audio again whether or not it is prepared.
PrepCheckAlways(p) ==
    /\ prep_pc[p] = "check"
    /\ prep_pc' = [prep_pc EXCEPT ![p] = "exists"]
    /\ UNCHANGED _preparation_lock
    /\ UNCHANGED << _audio_bytes, _audio_prepared, bytes_writes, flag_writes >>
    /\ UNCHANGED << env, sessv, infov >>

\* if _audio_prepared: return
PrepCheck(p) ==
    /\ prep_pc[p] = "check"
    /\ IF _audio_prepared
       THEN /\ prep_pc' = [prep_pc EXCEPT ![p] = "done"]
            /\ _preparation_lock' = 0
       ELSE /\ prep_pc' = [prep_pc EXCEPT ![p] = "exists"]
            /\ UNCHANGED _preparation_lock
    /\ UNCHANGED << _audio_bytes, _audio_prepared, bytes_writes, flag_writes >>
    /\ UNCHANGED << env, sessv, infov >>

\* A preparation that does not look for the file before loading it and
\* publishes a buffer of silence when the file is not there.
PrepExistsIgnored(p) ==
    /\ prep_pc[p] = "exists"
    /\ prep_pc' = [prep_pc EXCEPT ![p] = IF file_exists THEN "load" ELSE "store"]
    /\ UNCHANGED _preparation_lock
    /\ UNCHANGED << _audio_bytes, _audio_prepared, bytes_writes, flag_writes >>
    /\ UNCHANGED << env, sessv, infov >>

\* if not os.path.exists(AUDIO_FILE_PATH): log, return
PrepExists(p) ==
    /\ prep_pc[p] = "exists"
    /\ IF file_exists
       THEN /\ prep_pc' = [prep_pc EXCEPT ![p] = "load"]
            /\ UNCHANGED _preparation_lock
       ELSE /\ prep_pc' = [prep_pc EXCEPT ![p] = "done"]
            /\ _preparation_lock' = 0
    /\ UNCHANGED << _audio_bytes, _audio_prepared, bytes_writes, flag_writes >>
    /\ UNCHANGED << env, sessv, infov >>

\* from_mp3 ... padded_audio.export: an exception leaves the with block and
\* is logged by the except clause.
PrepLoad(p) ==
    /\ prep_pc[p] = "load"
    /\ IF file_decodes
       THEN /\ prep_pc' = [prep_pc EXCEPT ![p] = "store"]
            /\ UNCHANGED _preparation_lock
       ELSE /\ prep_pc' = [prep_pc EXCEPT ![p] = "done"]
            /\ _preparation_lock' = 0
    /\ UNCHANGED << _audio_bytes, _audio_prepared, bytes_writes, flag_writes >>
    /\ UNCHANGED << env, sessv, infov >>

\* The two publishing assignments with the flag set first.
PublishOrderFlagFirst == << "flag", "bytes" >>

\* The two publishing assignments, in program order.
PublishOrder == << "bytes", "flag" >>

\* _audio_bytes = audio_buffer.getvalue()  /  _audio_prepared = True
PrepWrite(what, value) ==
    IF what = "bytes"
    THEN /\ _audio_bytes' = value
         /\ bytes_writes' = bytes_writes + 1
         /\ UNCHANGED << _audio_prepared, flag_writes >>
    ELSE /\ _audio_prepared' = TRUE
         /\ flag_writes' = flag_writes + 1
         /\ UNCHANGED << _audio_bytes, bytes_writes >>

PrepStore(p) ==
    /\ prep_pc[p] = "store"
    /\ \E b \in Buffers : PrepWrite(PublishOrder[1], b)
    /\ prep_pc' = [prep_pc EXCEPT ![p] = "publish"]
    /\ UNCHANGED _preparation_lock
    /\ UNCHANGED << env, sessv, infov >>

PrepPublish(p) ==
    /\ prep_pc[p] = "publish"
    /\ \E b \in Buffers : PrepWrite(PublishOrder[2], b)
    /\ prep_pc' = [prep_pc EXCEPT ![p] = "done"]
    /\ _preparation_lock' = 0
    /\ UNCHANGED << env, sessv, infov >>

prepare_audio_in_thread(p) ==
    \/ PrepAcquire(p)
    \/ PrepCheck(p)
    \/ PrepExists(p)
    \/ PrepLoad(p)
    \/ PrepStore(p)
    \/ PrepPublish(p)

\* ------------------------------------------------------------ stream_audio

\* What the client has got from the handler once it has returned: the
\* handler wraps a generator that has not run yet in a StreamingResponse and
\* returns it, so its try block has completed without an exception and the
\* response is the streaming one (status 200, audio/mpeg).
Returned == "200 streaming"

stream_audio(s) ==
    /\ s \in clients
    /\ pc[s] = "idle"
    /\ running = 0
    /\ response' = [response EXCEPT ![s] = Returned]
    /\ pc' = [pc EXCEPT ![s] = "created"]
    /\ join_chunk' = [join_chunk EXCEPT ![s] =
                        IF last_to = 0 THEN None ELSE chunk[last_to]]
    /\ UNCHANGED << running, wait_time, loop_count, i, chunk, exc, stalled, out,
                    pass_out, last_to >>
    /\ UNCHANGED << env, prepv, infov >>

\* -------------------------------------------------- audio_stream_generator

\* Mutant: one poll too many (<= for <).
StillWaitingOneMore(prepared, w) == ~prepared /\ w <= max_wait

\* while not _audio_prepared and wait_time < max_wait
StillWaiting(prepared, w) == ~prepared /\ w < max_wait

\* The loop test with wait_time = w: sleep again, or leave the loop for the
\* check that follows it.
WaitStep(s, w) ==
    /\ wait_time' = [wait_time EXCEPT ![s] = w]
    /\ IF StillWaiting(_audio_prepared, w)
       THEN /\ pc' = [pc EXCEPT ![s] = "poll_sleep"]
            /\ running' = 0
       ELSE /\ pc' = [pc EXCEPT ![s] = "ready_check"]
            /\ running' = s
    /\ UNCHANGED << response, loop_count, i, chunk, exc, stalled, out, pass_out,
                    last_to, join_chunk >>
    /\ UNCHANGED << env, prepv, infov >>

\* The generator is started by the first request for a chunk:
\* max_wait = 30; wait_time = 0; first loop test
Begin(s) ==
    /\ pc[s] = "created"
    /\ running = 0
    /\ WaitStep(s, 0)

\* asyncio.sleep(0.5) returns; wait_time += 0.5; next loop test
PollWake(s) ==
    /\ pc[s] = "poll_sleep"
    /\ running = 0
    /\ WaitStep(s, wait_time[s] + 1)

\* Mutant: `and` for `or`.
NotReadyAnd(prepared, bytes) == ~prepared /\ bytes = None

\* if not _audio_prepared or _audio_bytes is None
NotReady(prepared, bytes) == ~prepared \/ bytes = None

\* Mutant: the end of one session ends them all.
FinishAll(s, e) ==
    /\ pc' = [t \in Sessions |-> "terminated"]
    /\ exc' = [exc EXCEPT ![s] = e]
    /\ running' = 0
    /\ loop_count' = [loop_count EXCEPT ![s] = 0]
    /\ i' = [i EXCEPT ![s] = 0]
    /\ chunk' = [chunk EXCEPT ![s] = None]
    /\ pass_out' = [pass_out EXCEPT ![s] = << >>]
    /\ stalled' = [stalled EXCEPT ![s] = FALSE]
    /\ join_chunk' = [join_chunk EXCEPT ![s] = None]
    /\ last_to' = IF last_to = s THEN 0 ELSE last_to
    /\ UNCHANGED << response, out >>

\* The generator's frame is gone once an exception has left it.
Finish(s, e) ==
    /\ pc' = [pc EXCEPT ![s] = "terminated"]
    /\ exc' = [exc EXCEPT ![s] = e]
    /\ running' = 0
    /\ loop_count' = [loop_count EXCEPT ![s] = 0]
    /\ i' = [i EXCEPT ![s] = 0]
    /\ chunk' = [chunk EXCEPT ![s] = None]
    /\ pass_out' = [pass_out EXCEPT ![s] = << >>]
    /\ stalled' = [stalled EXCEPT ![s] = FALSE]
    /\ join_chunk' = [join_chunk EXCEPT ![s] = None]
    /\ last_to' = IF last_to = s THEN 0 ELSE last_to
    /\ UNCHANGED << response, out >>

\* A check that gives up once the wait has run out, without looking at the
\* flag again.
ReadyCheckTimedOut(s) ==
    /\ pc[s] = "ready_check"
    /\ IF wait_time[s] >= max_wait \/ NotReady(_audio_prepared, _audio_bytes)
       THEN /\ Finish(s, "HTTPException 500")
            /\ UNCHANGED wait_time
       ELSE /\ pc' = [pc EXCEPT ![s] = "loop_top"]
            /\ wait_time' = [wait_time EXCEPT ![s] = 0]
            /\ UNCHANGED << running, response, loop_count, i, chunk, exc, stalled,
                            out, pass_out, last_to, join_chunk >>
    /\ UNCHANGED << env, prepv, infov >>

\* raise HTTPException(status_code=500, detail="Audio preparation failed"),
\* else go on to the streaming loop (wait_time is not read again: the model
\* forgets it)
ReadyCheck(s) ==
    /\ pc[s] = "ready_check"
    /\ IF NotReady(_audio_prepared, _audio_bytes)
       THEN /\ Finish(s, "HTTPException 500")
            /\ UNCHANGED wait_time
       ELSE /\ pc' = [pc EXCEPT ![s] = "loop_top"]
            /\ wait_time' = [wait_time EXCEPT ![s] = 0]
            /\ UNCHANGED << running, response, loop_count, i, chunk, exc, stalled,
                            out, pass_out, last_to, join_chunk >>
    /\ UNCHANGED << env, prepv, infov >>

\* Mutant: the generator returns after one pass.
PassEndReturn == "terminated"

\* Where the generator goes when range(0, len(_audio_bytes), chunk_size) is
\* exhausted: the pause before the next pass of `while True`.
PassEnd == "sleep_loop"

\* One step of `for i in range(0, len(_audio_bytes), chunk_size)` with the
\* next index idx: either the body up to `yield chunk`, or the end of the
\* pass.  lc is the pass number and po the chunks of the pass so far.
ForNext(s, idx, lc, po) ==
    /\ IF idx < Len(_audio_bytes)
       THEN LET c == Slice(_audio_bytes, idx, idx + chunk_size)
            IN  /\ i' = [i EXCEPT ![s] = idx]
                /\ chunk' = [chunk EXCEPT ![s] = c]
                /\ pc' = [pc EXCEPT ![s] = "yield"]
                /\ out' = IF lc <= pass_cap
                          THEN [out EXCEPT ![s] = Append(@, c)] ELSE out
                /\ pass_out' = [pass_out EXCEPT ![s] = Append(po, c)]
                /\ last_to' = s
       ELSE /\ pc' = [pc EXCEPT ![s] = PassEnd]
            /\ pass_out' = [pass_out EXCEPT ![s] = po]
            /\ UNCHANGED << i, chunk, out, last_to >>
    /\ running' = 0
    /\ UNCHANGED << response, wait_time, exc, stalled, join_chunk >>
    /\ UNCHANGED << env, prepv, infov >>

\* Mutant: a pass starts at the second chunk.
LoopBodySkip(s) ==
    LET lc == Min(loop_count[s] + 1, pass_cap + 1)
    IN  /\ loop_count' = [loop_count EXCEPT ![s] = lc]
        /\ ForNext(s, chunk_size, lc, << >>)

\* while True: loop_count += 1, then the first step of the for loop
LoopBody(s) ==
    LET lc == Min(loop_count[s] + 1, pass_cap + 1)
    IN  /\ loop_count' = [loop_count EXCEPT ![s] = lc]
        /\ ForNext(s, 0, lc, << >>)

\* first pass, entered from the readiness check
LoopTop(s) ==
    /\ pc[s] = "loop_top"
    /\ LoopBody(s)

\* asyncio.sleep(0.1) returns: next pass
LoopWake(s) ==
    /\ pc[s] = "sleep_loop"
    /\ running = 0
    /\ LoopBody(s)

\* Mutant: no generator is resumed while some client is stalled.
CanResumeBarrier(s) == \A t \in Sessions : ~stalled[t]

\* May the generator of s be resumed after its yield?  It is when its own
\* consumer asks for the next chunk, whatever the other sessions do.
CanResume(s) == ~stalled[s]

\* The consumer has sent the chunk to its client and asks for the next one:
\* the generator resumes after `yield chunk` and reaches asyncio.sleep(0.02).
Resume(s) ==
    /\ pc[s] = "yield"
    /\ running = 0
    /\ CanResume(s)
    /\ pc' = [pc EXCEPT ![s] = "sleep_chunk"]
    /\ join_chunk' = [join_chunk EXCEPT ![s] = None]
    /\ UNCHANGED << running, response, wait_time, loop_count, i, chunk, exc,
                    stalled, out, pass_out, last_to >>
    /\ UNCHANGED << env, prepv, infov >>

\* asyncio.sleep(0.02) returns: the next step of the for loop
ChunkWake(s) ==
    /\ pc[s] = "sleep_chunk"
    /\ running = 0
    /\ UNCHANGED loop_count
    /\ ForNext(s, i[s] + chunk_size, loop_count[s], pass_out[s])

\* The points where the generator is suspended.
SuspensionPoints == { "poll_sleep", "yield", "sleep_chunk", "sleep_loop" }

\* What a disconnect throws into the generator: CancelledError at an await;
\* at a yield the consumer is cancelled and the generator is closed
\* (GeneratorExit) or has the CancelledError thrown into it.
Thrown(at) == IF at = "yield" THEN { "CancelledError", "GeneratorExit" }
              ELSE { "CancelledError" }

\* Mutant: the handler logs the CancelledError and does not re-raise it.
Swallowed(at, e) == IF at # "poll_sleep" /\ e = "CancelledError" THEN "none" ELSE e

\* The exception that leaves the generator when e is thrown at `at`: the
\* poll loop is outside the try block; inside it,
\* `except asyncio.CancelledError: log; raise` re-raises, and GeneratorExit
\* is no Exception, so the second clause lets it pass.
Propagated(at, e) == e

\* Client disconnect or task cancellation at a suspension point.
Cancel(s) ==
    /\ pc[s] \in SuspensionPoints
    /\ running = 0
    /\ \E e \in Thrown(pc[s]) : Finish(s, Propagated(pc[s], e))
    /\ wait_time' = [wait_time EXCEPT ![s] = 0]
    /\ UNCHANGED << env, prepv, infov >>

\* The client stops reading: the chunk it was handed is never consumed.
Stall(s) ==
    /\ pc[s] = "yield"
    /\ ~stalled[s]
    /\ stalled' = [stalled EXCEPT ![s] = TRUE]
    /\ UNCHANGED << running, pc, response, wait_time, loop_count, i, chunk, exc,
                    out, pass_out, last_to, join_chunk >>
    /\ UNCHANGED << env, prepv, infov >>

\* ---------------------------------------------------------- get_audio_info

\* What the caller gets when HTTPException(status, detail) or another error
\* is raised inside the try block: `except Exception` catches it (an
\* HTTPException is an Exception) and raises HTTPException(500,
\* "Failed to get audio info: " + str(e)) in its place.
InfoRaised(status, detail) ==
    [status |-> 500, detail |-> "Failed to get audio info: " \o detail,
     prepared |-> FALSE, size |-> 0]

\* A get_audio_info that marks the audio prepared once it has looked at it.
InfoEffectMarks ==
    /\ _audio_prepared' = TRUE
    /\ UNCHANGED << _audio_bytes, _preparation_lock, prep_pc, bytes_writes,
                    flag_writes, pc, response, wait_time, loop_count, i, chunk,
                    exc, stalled, out, pass_out, last_to, join_chunk >>

\* What get_audio_info assigns to the module globals and to the sessions:
\* nothing (it has no global statement and only reads).
InfoEffect == UNCHANGED << prepv, pc, response, wait_time, loop_count, i, chunk,
                           exc, stalled, out, pass_out, last_to, join_chunk >>

\* The call up to its read of _audio_prepared: the checks of the file, which
\* end the call when they fail, then "prepared": _audio_prepared.  The
\* handler has no await: it keeps the event loop until it returns.
InfoBegin ==
    /\ info_client
    /\ info_pc = "idle"
    /\ running = 0
    /\ IF ~file_exists
       THEN /\ info' = InfoRaised(404, "404: Audio file not found")
            /\ UNCHANGED << info_pc, info_prepared, running >>
       ELSE IF ~file_decodes
       THEN /\ info' = InfoRaised(0, "decode error")
            /\ UNCHANGED << info_pc, info_prepared, running >>
       ELSE /\ info' = NoInfo
            /\ info_pc' = "read_bytes"
            /\ info_prepared' = _audio_prepared
            /\ running' = InfoTask
    /\ InfoEffect
    /\ UNCHANGED env

\* "buffer_size_bytes": len(_audio_bytes) if _audio_bytes else 0; return
InfoReadBytes ==
    /\ info_pc = "read_bytes"
    /\ info' = [status |-> 200, detail |-> "", prepared |-> info_prepared,
                size |-> IF _audio_bytes = None THEN 0 ELSE Len(_audio_bytes)]
    /\ info_pc' = "idle"
    /\ info_prepared' = FALSE
    /\ running' = 0
    /\ InfoEffect
    /\ UNCHANGED env

get_audio_info == InfoBegin \/ InfoReadBytes

\* The steps the event loop takes for a session.
audio_stream_generator(s) ==
    \/ Begin(s)
    \/ PollWake(s)
    \/ ReadyCheck(s)
    \/ LoopTop(s)
    \/ Resume(s)
    \/ ChunkWake(s)
    \/ LoopWake(s)

Next ==
    \/ \E p \in Preparers : prepare_audio_in_thread(p)
    \/ \E s \in Sessions : stream_audio(s)
    \/ \E s \in Sessions : audio_stream_generator(s)
    \/ \E s \in Sessions : Cancel(s)
    \/ \E s \in Sessions : Stall(s)
    \/ InfoBegin
    \/ InfoReadBytes

\* The thread runs, the event loop resumes every task that is ready, and a
\* client that has not stalled keeps reading; whether a client connects,
\* stalls or disconnects is up to the client.
Fairness ==
    /\ \A p \in Preparers : WF_vars(prepare_audio_in_thread(p))
    /\ \A s \in Sessions : WF_vars(audio_stream_generator(s))
    /\ WF_vars(InfoReadBytes)

\* The event loop runs its ready tasks first in, first out: a task that is
\* ready again and again runs, however many /info requests arrive in between.
ReadyQueue == \A s \in Sessions : SF_vars(audio_stream_generator(s))

Spec == Init /\ [][Next]_vars
FairSpec == Spec /\ Fairness

SpecStream == InitStream /\ [][Next]_vars
FairStream == SpecStream /\ Fairness /\ ReadyQueue

SpecRuns == InitRuns /\ [][Next]_vars

TypeOK ==
    /\ _audio_bytes \in Buffers \cup { None }
    /\ _audio_prepared \in BOOLEAN
    /\ running \in 0..InfoTask
    /\ \A s \in Sessions : wait_time[s] \in 0..max_wait

\* ================================================================ claims

RECURSIVE Flatten(_)
\* The bytes of a sequence of chunks, in order.
Flatten(cs) == IF cs = << >> THEN << >> ELSE Head(cs) \o Flatten(Tail(cs))

RECURSIVE Repeat(_, _)
\* b repeated n times.
Repeat(b, n) == IF n = 0 THEN << >> ELSE b \o Repeat(b, n - 1)

CeilDiv(a, b) == (a + b - 1) \div b

Streaming == { "loop_top", "yield", "sleep_chunk", "sleep_loop" }

\* C1: when a session has finished a pass over a buffer of L >= 1 bytes with
\* chunk size C, the pass has yielded ceil(L/C) chunks, each of C bytes but
\* the last, which has L mod C bytes (C when L mod C = 0), and the chunks
\* concatenated are the buffer.
C1_PassChunks ==
    \A s \in Sessions :
        (pc[s] = "sleep_loop" /\ Len(_audio_bytes) >= 1) =>
            LET L == Len(_audio_bytes)
                C == chunk_size
                n == Len(pass_out[s])
            IN  /\ n = CeilDiv(L, C)
                /\ \A k \in 1..(n - 1) : Len(pass_out[s][k]) = C
                /\ Len(pass_out[s][n]) = IF L % C = 0 THEN C ELSE L % C
                /\ Flatten(pass_out[s]) = _audio_bytes

\* A pass with a short last chunk has been completed.
C1_Witness ==
    \E s \in Sessions :
        /\ pc[s] = "sleep_loop"
        /\ Len(_audio_bytes) = 3
        /\ chunk_size = 2
        /\ pass_out[s] = << << 1, 2 >>, << 3 >> >>

\* C2: the stream a session has yielded when it finishes its N-th pass is
\* the buffer repeated N times; inside pass N it is N - 1 copies of the
\* buffer followed by the buffer up to the end of the current chunk, so the
\* chunk after the last one of a pass is the one at offset 0.
C2_Looping ==
    \A s \in Sessions :
        (pc[s] \in Streaming \ { "loop_top" } /\ loop_count[s] <= pass_cap) =>
            LET N == loop_count[s]
            IN  IF pc[s] = "sleep_loop"
                THEN Flatten(out[s]) = Repeat(_audio_bytes, N)
                ELSE /\ Flatten(out[s]) =
                            Repeat(_audio_bytes, N - 1)
                            \o SubSeq(_audio_bytes, 1, i[s] + Len(chunk[s]))
                     /\ chunk[s] = out[s][Len(out[s])]
                     /\ Len(chunk[s]) >= 1

\* The second pass over a buffer of several chunks has been completed, and
\* the first chunk of a second pass has been yielded.
C2_Witness ==
    \E s \in Sessions :
        /\ pc[s] = "sleep_loop"
        /\ loop_count[s] = 2
        /\ chunk_size = 1
        /\ out[s] = << << 1 >>, << 2 >>, << 1 >>, << 2 >> >>

\* C3: a session that joins while a connected session has been yielded
\* chunks gets, as its first chunk, the chunk yielded last at that moment.
C3_LateJoinSync ==
    \A s \in Sessions :
        (pc[s] = "yield" /\ join_chunk[s] # None) => chunk[s] = join_chunk[s]

\* C4: a session that is streaming or has yielded a chunk implies that
\* _audio_prepared is true and _audio_bytes is a buffer; a session that is
\* not streaming yet has polled at most max_wait times.
C4_PreparedBeforeYield ==
    \A s \in Sessions :
        /\ (pc[s] \in Streaming \/ chunk[s] # None \/ out[s] # << >>) =>
                (_audio_prepared /\ _audio_bytes # None)
        /\ wait_time[s] <= max_wait

\* One session gave up before preparation completed and another streams.
C4_Witness ==
    \E s, t \in Sessions :
        /\ pc[s] = "yield"
        /\ pc[t] = "terminated"
        /\ exc[t] = "HTTPException 500"

WaitInv ==
    /\ max_wait = PollsPerSecond * MaxWaitSeconds
    /\ \A s \in Sessions :
        /\ wait_time[s] <= max_wait
        /\ (pc[s] = "terminated" /\ exc[s] = "HTTPException 500") =>
                wait_time[s] = max_wait

\* C5: a session never polls more than 60 times, a session that ends with
\* the preparation failure has polled exactly 60 times, and a session that
\* has started leaves the wait: preparation completes or the session ends
\* (with the HTTPException, unless its client left first).
C5_BoundedWait ==
    /\ []WaitInv
    /\ \A s \in Sessions :
          (pc[s] = "created") ~> (_audio_prepared \/ pc[s] = "terminated")
    /\ \A s \in Sessions :
          (pc[s] \in { "created", "poll_sleep", "ready_check" })
              ~> (pc[s] \in Streaming \cup { "terminated" })

\* The wait has timed out after 60 polls.
C5_Witness ==
    \E s \in Sessions :
        /\ pc[s] = "terminated"
        /\ exc[s] = "HTTPException 500"
        /\ wait_time[s] = 60
        /\ ~_audio_prepared

\* C6: a session that ends with the preparation failure has not been given
\* the response of a successful stream.
C6_ExplicitError ==
    \A s \in Sessions :
        (pc[s] = "terminated" /\ exc[s] = "HTTPException 500") =>
            response[s] # "200 streaming"

CancelExc == { "CancelledError", "GeneratorExit" }

\* C7: a streaming session leaves the streaming loop only by a cancellation;
\* over a non-empty buffer a session that is not cancelled yields again after
\* every sleep, and is resumed after every yield unless its client stalls.
C7_NeverEnds ==
    /\ [][\A s \in Sessions :
            (pc[s] \in Streaming /\ pc'[s] \notin Streaming) =>
                (pc'[s] = "terminated" /\ exc'[s] \in CancelExc)]_vars
    /\ \A s \in Sessions :
          (pc[s] \in Streaming \ { "yield" } /\ Len(_audio_bytes) >= 1)
              ~> (pc[s] \in { "yield", "terminated" })
    /\ \A s \in Sessions :
          (pc[s] = "yield")
              ~> (pc[s] = "sleep_chunk" \/ stalled[s] \/ pc[s] = "terminated")

\* A session is yielding in a pass after the recorded ones.
C7_Witness ==
    \E s \in Sessions :
        /\ pc[s] = "yield"
        /\ loop_count[s] = MaxPasses + 1
        /\ Len(_audio_bytes) >= 2
        /\ i[s] > 0

\* C8: a session that is ended at a suspension point ends with the exception
\* thrown into it, and an ended session stays ended, with the same exception
\* and without another chunk.
C8_Cancellation ==
    [][\A s \in Sessions :
        /\ (pc[s] \in SuspensionPoints /\ pc'[s] = "terminated")
             => exc'[s] \in Thrown(pc[s])
        /\ (pc[s] = "terminated")
             => /\ pc'[s] = "terminated"
                /\ exc'[s] = exc[s]
                /\ out'[s] = out[s]
                /\ chunk'[s] = None]_vars

\* A session has been cancelled at a yield after it had yielded chunks.
C8_Witness ==
    \E s \in Sessions :
        /\ pc[s] = "terminated"
        /\ exc[s] = "GeneratorExit"
        /\ Len(out[s]) >= 2

\* Session s is handed a chunk.
YieldStep(s) == pc[s] # "yield" /\ pc'[s] = "yield"

\* Session s is in the streaming loop over a non-empty buffer and its client
\* is reading.
Consuming(s) ==
    /\ pc[s] \in { "yield", "sleep_chunk", "sleep_loop" }
    /\ ~stalled[s]
    /\ Len(_audio_bytes) >= 1

\* C9: a stalled session stays at its yield with the one chunk it holds, and
\* if from some point on a session is stalled while another one keeps
\* consuming, the other one is handed chunk after chunk for ever.
C9_StallIsolation ==
    /\ [][\A a \in Sessions :
            stalled[a] =>
                \/ pc'[a] = "terminated"
                \/ (stalled'[a] /\ pc'[a] = "yield" /\ chunk'[a] = chunk[a]
                        /\ i'[a] = i[a])]_vars
    /\ \A b \in Sessions :
          <>[](Consuming(b) /\ \E a \in Sessions \ { b } : stalled[a])
              => []<><<YieldStep(b)>>_vars

\* One session is stalled and another has gone on past it.
C9_Witness ==
    \E a, b \in Sessions :
        /\ a # b
        /\ stalled[a]
        /\ i[a] = 0
        /\ pc[b] = "yield"
        /\ i[b] > 0

\* C10: the step that ends a session changes neither _audio_bytes nor
\* _audio_prepared nor any variable of another session, and a session that
\* keeps consuming after another one has ended is handed chunk after chunk
\* for ever.
C10_FailureIsolation ==
    /\ [][\A s \in Sessions :
            (pc[s] # "terminated" /\ pc'[s] = "terminated") =>
                /\ _audio_bytes' = _audio_bytes
                /\ _audio_prepared' = _audio_prepared
                /\ \A t \in Sessions \ { s } :
                      /\ pc'[t] = pc[t]
                      /\ wait_time'[t] = wait_time[t]
                      /\ loop_count'[t] = loop_count[t]
                      /\ i'[t] = i[t]
                      /\ chunk'[t] = chunk[t]
                      /\ exc'[t] = exc[t]
                      /\ stalled'[t] = stalled[t]
                      /\ out'[t] = out[t]
                      /\ pass_out'[t] = pass_out[t]]_vars
    /\ \A t \in Sessions :
          <>[](Consuming(t) /\ \E s \in Sessions \ { t } : pc[s] = "terminated")
              => []<><<YieldStep(t)>>_vars

\* One session has been cancelled and another is yielding a later chunk.
C10_Witness ==
    \E s, t \in Sessions :
        /\ s # t
        /\ pc[s] = "terminated"
        /\ exc[s] = "CancelledError"
        /\ pc[t] = "yield"
        /\ i[t] > 0

\* The code keeps no registry: the listeners it serves are the sessions whose
\* generator exists and has not ended.
Active(s) == pc[s] \notin { "idle", "terminated" }
Registered == { s \in Sessions : Active(s) }

\* C11: the step that ends a session takes exactly that session out of the
\* active ones, whatever ends it, leaves nothing of it behind (no chunk, no
\* position, not the task the event loop runs, not the session yielded to
\* last), and an ended session never becomes active again.
C11_Cleanup ==
    [][\A s \in Sessions :
        /\ (Active(s) /\ pc'[s] = "terminated") =>
              /\ Registered' = Registered \ { s }
              /\ Cardinality(Registered') = Cardinality(Registered) - 1
              /\ chunk'[s] = None
              /\ pass_out'[s] = << >>
              /\ ~stalled'[s]
              /\ running' # s
              /\ last_to' # s
        /\ (pc[s] = "terminated") => pc'[s] = "terminated"]_vars

\* Two sessions were active, one has ended (by cancellation or by the
\* preparation failure) and the other is still streaming.
C11_Witness ==
    \E s, t \in Sessions :
        /\ pc[s] = "terminated"
        /\ exc[s] # "none"
        /\ pc[t] \in Streaming
        /\ Registered = { t }

\* C12: get_audio_info is read-only.  Every step of a call to it, whether
\* the call succeeds or fails and wherever the preparation thread and the
\* sessions are, leaves _audio_bytes, _audio_prepared, the lock and every
\* session's position (pc, wait_time, loop_count, i, chunk) unchanged.
InfoStep == info_pc' # info_pc \/ info' # info

C12_InfoReadOnly ==
    [][InfoStep =>
          UNCHANGED << _audio_bytes, _audio_prepared, _preparation_lock,
                       prep_pc, pc, wait_time, loop_count, i, chunk, exc >>]_vars

\* A call returned while a session was between two chunks, and the thread
\* published the buffer between the call's two reads.
C12_Witness ==
    /\ info.status = 200 /\ ~info.prepared /\ info.size > 0
    /\ info_pc = "idle"
    /\ \E s \in Sessions : pc[s] = "sleep_chunk"

\* C13: when the file is missing or loading it raises, the run of
\* prepare_audio_in_thread returns (its position reaches the end and the
\* lock is free again) and the shared state stays as it was at module load:
\* _audio_prepared false, _audio_bytes None.  No session, whenever it
\* connects, is then ever given a chunk: none reaches the streaming loop.
PrepFails == ~file_exists \/ ~file_decodes

PrepReturned ==
    /\ \A p \in Preparers : prep_pc[p] \in { "start", "done" }
    /\ prep_pc[1] = "done"
    /\ _preparation_lock = 0

C13_PrepFailure ==
    /\ [](PrepFails =>
            /\ _audio_bytes = None
            /\ ~_audio_prepared
            /\ \A p \in Preparers : prep_pc[p] \notin { "store", "publish" }
            /\ \A s \in Sessions :
                  /\ pc[s] \notin Streaming
                  /\ chunk[s] = None
                  /\ pass_out[s] = << >>
                  /\ out[s] = << >>)
    /\ (PrepFails => <>[]PrepReturned)

\* The file is missing and the run has returned; one session that connected
\* before has polled to the end of its wait and ended with the error, and
\* another one has connected since and is polling.
C13_Witness ==
    /\ ~file_exists
    /\ PrepReturned
    /\ \E s, t \in Sessions :
          /\ pc[s] = "terminated"
          /\ exc[s] = "HTTPException 500"
          /\ wait_time[s] = max_wait
          /\ pc[t] = "poll_sleep"

\* C14: when the audio file does not exist, the outcome of get_audio_info
\* that the caller sees is the status 404 with the detail "Audio file not
\* found".
C14_NotFound ==
    (~file_exists /\ info.status # 0) =>
        /\ info.status = 404
        /\ info.detail = "Audio file not found"

\* C15: a session reports the preparation failure only at the check after
\* its wait and only if _audio_prepared is still false there.  A session
\* whose generator starts with _audio_prepared true does not poll; a session
\* that finds _audio_prepared true at the check, however long it has polled
\* and even if the first loop test after its last poll still saw it false,
\* goes on to the streaming loop, and its first chunk starts at offset 0.
C15_ReportsOnlyIfIncomplete ==
    [][\A s \in Sessions :
        /\ (exc[s] # "HTTPException 500" /\ exc'[s] = "HTTPException 500") =>
              (pc[s] = "ready_check" /\ ~_audio_prepared)
        /\ (pc[s] = "created" /\ _audio_prepared) => pc'[s] # "poll_sleep"
        /\ (pc[s] = "ready_check" /\ _audio_prepared /\ pc'[s] # pc[s]) =>
              (pc'[s] = "loop_top" /\ loop_count'[s] = 0 /\ exc'[s] = "none")
        /\ (pc[s] = "loop_top" /\ pc'[s] = "yield") =>
              (i'[s] = 0 /\ chunk'[s] = Slice(_audio_bytes, 0, chunk_size))]_vars

\* A session has polled to the end of its wait and left the loop, and
\* preparation has completed since, before the check.
C15_Witness ==
    \E s \in Sessions :
        /\ pc[s] = "ready_check"
        /\ wait_time[s] = max_wait
        /\ max_wait > 0
        /\ _audio_prepared
        /\ prep_pc[1] = "done"

\* C16: in every reachable state _audio_prepared true implies that
\* _audio_bytes is not None, because the buffer is assigned before the flag.
\* No reader sees the flag set with the buffer missing: a session that is
\* past the check has a buffer to slice, and a get_audio_info call that has
\* read the flag as true then reads a buffer, so that an answer with
\* "prepared" true carries that buffer's length.
C16_BytesBeforeFlag ==
    /\ _audio_prepared => _audio_bytes # None
    /\ \A s \in Sessions : pc[s] \in Streaming => _audio_bytes # None
    /\ (info_pc = "read_bytes" /\ info_prepared) => _audio_bytes # None
    /\ (info.status = 200 /\ info.prepared) =>
          (_audio_bytes # None /\ info.size = Len(_audio_bytes))

\* The buffer is assigned and the flag is not yet: the thread is between the
\* two assignments while a session polls and a get_audio_info call, having
\* read the flag as false, is about to read the buffer.
C16_Witness ==
    /\ _audio_bytes # None
    /\ ~_audio_prepared
    /\ prep_pc[1] = "publish"
    /\ info_pc = "read_bytes"
    /\ \E s \in Sessions : pc[s] = "poll_sleep"

\* C17: preparation takes effect at most once, however many runs of
\* prepare_audio_in_thread there are and however they overlap.  The lock
\* admits one run at a time; a run that finds _audio_prepared true returns
\* without writing; _audio_bytes and _audio_prepared are each assigned at
\* most once, and once _audio_prepared is true neither changes again, so
\* every chunk of every session is a slice of the one buffer.
InLock == { p \in Preparers : prep_pc[p] \notin { "start", "done" } }

C17_PreparedOnce ==
    /\ [](/\ Cardinality(InLock) <= 1
          /\ \A p \in Preparers : p \in InLock <=> _preparation_lock = p
          /\ bytes_writes <= 1
          /\ flag_writes <= 1
          /\ \A s \in Sessions : pc[s] = "yield" =>
                chunk[s] = Slice(_audio_bytes, i[s], i[s] + chunk_size))
    /\ [][/\ _audio_prepared =>
                /\ _audio_prepared'
                /\ _audio_bytes' = _audio_bytes
                /\ bytes_writes' = bytes_writes
                /\ flag_writes' = flag_writes
          /\ \A p \in Preparers :
                (prep_pc[p] = "check" /\ _audio_prepared /\ prep_pc'[p] # "check")
                    => prep_pc'[p] = "done"]_vars

\* Every run has returned, a later one after finding the audio prepared by
\* an earlier one, and a session is being given a chunk of the buffer.
C17_Witness ==
    /\ \A p \in Preparers : prep_pc[p] = "done"
    /\ Cardinality(Preparers) > 1
    /\ _audio_prepared
    /\ bytes_writes = 1
    /\ flag_writes = 1
    /\ \E s \in Sessions : pc[s] = "yield"

====
